---- MODULE Spec2Model ----
(***************************************************************************)
(* Ownership, session lifecycle, frame cycle and visibility-mask retrieval *)
(* of the openxr binding (openxr/src/entry.rs, openxr/src/session.rs).     *)
(*                                                                         *)
(* Every shared object is an Arc: the model keeps the strong count of each *)
(* Arc and, next to it, the values the caller actually holds.  The native  *)
(* runtime is the environment: it answers each native call with a status.  *)
(***************************************************************************)
EXTENDS Integers, Sequences, FiniteSets, TLC

\* ------------------------------------------------------------------ bounds
MaxSessions == 1
MaxOwners == 3
MaxHolders == 4
MaxCount == 3
MaxFrames == 2

\* The claims concern the descendants of one instance.
Instances == {1}
Sessions == 1..MaxSessions

\* The holders of a session's Arc<SessionInner>.
Kinds == {"Session", "FrameWaiter", "FrameStream", "Space", "Swapchain"}

VARIABLES
    lib,          \* the DynamicLibrary of Entry::load_from: unopened / loaded / unloaded
    entryStrong,  \* strong count of Entry.inner : Arc<Inner>
    entryUser,    \* Entry values held by the caller
    instHandle,   \* native instance handle: none / live / destroyed
    instStrong,   \* strong count of the Instance's Arc
    instUser,     \* Instance values held by the caller
    sessHandle,   \* native session handle: none / live / destroyed
    sessInst,     \* SessionInner.instance (0: no session yet)
    sessStrong,   \* strong count of Arc<SessionInner>
    holders,      \* live holders of the session, per kind
    destroyCalls, \* number of native destroy_session calls made for the handle
    sessState,    \* the runtime's session state
    leftIdle,     \* the session has left IDLE at least once
    endRejected,  \* Session::end was rejected while the session had never left IDLE
    frame,        \* per session: the runtime's frame state and the wait calls in flight
    mask,         \* the running Session::get_visibility_mask_khr invocation
    native,       \* native calls issued by the last operation, in order
    result        \* what the last operation returned to the caller

vars == <<lib, entryStrong, entryUser, instHandle, instStrong, instUser,
          sessHandle, sessInst, sessStrong, holders, destroyCalls, sessState,
          leftIdle, endRejected, frame, mask, native, result>>

entryVars == <<lib, entryStrong, entryUser>>
instVars == <<instHandle, instStrong, instUser>>
sessVars == <<sessHandle, sessInst, sessStrong, holders, destroyCalls>>
stateVars == <<sessState, leftIdle, endRejected>>

\* ------------------------------------------------------------ status codes
SuccessCodes == {"SUCCESS", "SESSION_LOSS_PENDING"}

\* crate::cvt: zero and positive statuses are Ok, negative ones are Err.
cvt(status) == [ok |-> status \in SuccessCodes, val |-> status]

Ret(op, r) == [op |-> op, ok |-> r.ok, val |-> r.val]
\* An operation that returns no value.
Unit(op) == [op |-> op, ok |-> TRUE, val |-> "SUCCESS"]

Call(fn, h, ret) == [fn |-> fn, h |-> h, ret |-> ret]

Max(a, b) == IF a >= b THEN a ELSE b

\* The least unused handle: the runtime hands out fresh handles.
Fresh(handles, S) == {h \in S : handles[h] = "none" /\ \A g \in S : g < h => handles[g] # "none"}

\* Entry and Instance values the caller holds.
OwnerCount == entryUser + Cardinality({<<i, n>> \in Instances \X (1..MaxOwners) : n <= instUser[i]})

HolderCount(s) ==
    holders[s]["Session"] + holders[s]["FrameWaiter"] + holders[s]["FrameStream"]
        + holders[s]["Space"] + holders[s]["Swapchain"]

LiveHolders == LET sum[n \in 0..MaxSessions] ==
                      IF n = 0 THEN 0 ELSE sum[n - 1] + HolderCount(n)
               IN sum[MaxSessions]

NoHolders == [k \in Kinds |-> 0]

\* A session outside a frame: nothing waited, no wait_frame call in flight.
IdleFrame == [state |-> "ready", inFlight |-> 0, issued |-> 0, ended |-> 0]

\* No get_visibility_mask_khr invocation has run yet.
IdleMask == [pc |-> "idle", s |-> 0, n |-> 0, tick |-> FALSE,
             vcap |-> 0, icap |-> 0, vlen |-> 0, ilen |-> 0,
             argv |-> 0, argi |-> 0, vertices |-> "null", indices |-> "null",
             vcnt |-> 0, icnt |-> 0, status |-> "SUCCESS", grew |-> FALSE]

Init ==
    /\ lib = "unopened"
    /\ entryStrong = 0
    /\ entryUser = 0
    /\ instHandle = [i \in Instances |-> "none"]
    /\ instStrong = [i \in Instances |-> 0]
    /\ instUser = [i \in Instances |-> 0]
    /\ sessHandle = [s \in Sessions |-> "none"]
    /\ sessInst = [s \in Sessions |-> 0]
    /\ sessStrong = [s \in Sessions |-> 0]
    /\ holders = [s \in Sessions |-> NoHolders]
    /\ destroyCalls = [s \in Sessions |-> 0]
    /\ sessState = [s \in Sessions |-> "IDLE"]
    /\ leftIdle = [s \in Sessions |-> FALSE]
    /\ endRejected = [s \in Sessions |-> FALSE]
    /\ frame = [s \in Sessions |-> IdleFrame]
    /\ mask = IdleMask
    /\ native = <<>>
    /\ result = Unit("unit")

\* ------------------------------------------------------------------- Entry

\* Entry::load_from: open the library, resolve the four symbols, keep the
\* library in Inner._lib_guard.  A failed open or a missing symbol returns a
\* LoadError; the local `lib` is dropped on the way out.
Entry_load_from ==
    /\ lib = "unopened"
    /\ \E outcome \in {"open_failed", "symbol_missing", "loaded"} :
        /\ lib' = CASE outcome = "open_failed" -> "unopened"
                    [] outcome = "symbol_missing" -> "unloaded"
                    [] outcome = "loaded" -> "loaded"
        /\ entryStrong' = IF outcome = "loaded" THEN 1 ELSE 0
        /\ entryUser' = IF outcome = "loaded" THEN 1 ELSE 0
        /\ result' = [op |-> "load_from", ok |-> outcome = "loaded",
                      val |-> IF outcome = "loaded" THEN "SUCCESS" ELSE "LoadError"]
    /\ native' = <<>>
    /\ UNCHANGED <<instVars, sessVars, stateVars, frame, mask>>

\* #[derive(Clone)] on Entry: one more strong reference to Inner.
Entry_clone ==
    /\ entryUser > 0
    /\ OwnerCount < MaxOwners
    /\ entryStrong' = entryStrong + 1
    /\ entryUser' = entryUser + 1
    /\ native' = <<>>
    /\ result' = Unit("unit")
    /\ UNCHANGED <<lib, instVars, sessVars, stateVars, frame, mask>>

\* Dropping the last strong reference drops Inner, and with it _lib_guard:
\* the library is unloaded.
Inner_drop(strong, l) == IF strong = 1 THEN "unloaded" ELSE l

Entry_drop ==
    /\ entryUser > 0
    /\ entryUser' = entryUser - 1
    /\ entryStrong' = entryStrong - 1
    /\ lib' = Inner_drop(entryStrong, lib)
    /\ native' = <<>>
    /\ result' = Unit("unit")
    /\ UNCHANGED <<instVars, sessVars, stateVars, frame, mask>>

\* Arc::clone: one more strong reference.
Arc_clone(strong) == strong + 1

\* ---------------------------------------------------------------- Instance

\* One strong reference to instance i is released while its count is
\* `strong`, after the native calls `calls`.  Releasing the last one drops
\* the instance: destroy_instance is called, then its Entry is dropped.
Instance_release(i, strong, calls) ==
    LET last == strong = 1 IN
    /\ instStrong' = [instStrong EXCEPT ![i] = strong - 1]
    /\ instHandle' = IF last THEN [instHandle EXCEPT ![i] = "destroyed"] ELSE instHandle
    /\ native' = IF last THEN Append(calls, Call("destroy_instance", i, "SUCCESS")) ELSE calls
    /\ entryStrong' = IF last THEN entryStrong - 1 ELSE entryStrong
    /\ lib' = IF last THEN Inner_drop(entryStrong, lib) ELSE lib

\* The Entry handed to Instance::from_raw by create_instance: self.clone().
create_instance_entry_unshared(strong) == strong

create_instance_entry(strong) == Arc_clone(strong)

\* Entry::create_instance: native create_instance, then
\* InstanceExtensions::load, then Instance::from_raw(self.clone(), ..).
\* Each `?` returns the error at once.  Instance::from_raw takes ownership
\* of the handle and of the Entry clone: when it fails it releases both.
Entry_create_instance(i) ==
    /\ entryUser > 0
    /\ i \in Fresh(instHandle, Instances)
    /\ OwnerCount < MaxOwners
    /\ \E outcome \in {"create_failed", "load_failed", "from_raw_failed", "created"} :
        /\ instHandle' = [instHandle EXCEPT ![i] =
               CASE outcome = "create_failed" -> "none"
                 [] outcome = "load_failed" -> "live"
                 [] outcome = "from_raw_failed" -> "destroyed"
                 [] outcome = "created" -> "live"]
        /\ instStrong' = [instStrong EXCEPT ![i] = IF outcome = "created" THEN 1 ELSE 0]
        /\ instUser' = [instUser EXCEPT ![i] = IF outcome = "created" THEN 1 ELSE 0]
        /\ entryStrong' = IF outcome = "created"
                            THEN create_instance_entry(entryStrong) ELSE entryStrong
        /\ native' =
               CASE outcome = "create_failed" ->
                      <<Call("create_instance", 0, "ERROR_RUNTIME_FAILURE")>>
                 [] outcome = "load_failed" ->
                      <<Call("create_instance", i, "SUCCESS"),
                        Call("get_instance_proc_addr", i, "ERROR_FUNCTION_UNSUPPORTED")>>
                 [] outcome = "from_raw_failed" ->
                      <<Call("create_instance", i, "SUCCESS"),
                        Call("get_instance_proc_addr", i, "ERROR_FUNCTION_UNSUPPORTED"),
                        Call("destroy_instance", i, "SUCCESS")>>
                 [] outcome = "created" ->
                      <<Call("create_instance", i, "SUCCESS")>>
        /\ result' = Ret("create_instance",
               cvt(CASE outcome = "create_failed" -> "ERROR_RUNTIME_FAILURE"
                     [] outcome = "load_failed" -> "ERROR_FUNCTION_UNSUPPORTED"
                     [] outcome = "from_raw_failed" -> "ERROR_FUNCTION_UNSUPPORTED"
                     [] outcome = "created" -> "SUCCESS"))
    /\ UNCHANGED <<lib, entryUser, sessVars, stateVars, frame, mask>>

Instance_clone(i) ==
    /\ instUser[i] > 0
    /\ OwnerCount < MaxOwners
    /\ instUser' = [instUser EXCEPT ![i] = @ + 1]
    /\ instStrong' = [instStrong EXCEPT ![i] = Arc_clone(@)]
    /\ native' = <<>>
    /\ result' = Unit("unit")
    /\ UNCHANGED <<entryVars, instHandle, sessVars, stateVars, frame, mask>>

Instance_drop(i) ==
    /\ instUser[i] > 0
    /\ instUser' = [instUser EXCEPT ![i] = @ - 1]
    /\ Instance_release(i, instStrong[i], <<>>)
    /\ result' = Unit("unit")
    /\ UNCHANGED <<entryUser, sessVars, stateVars, frame, mask>>

\* ----------------------------------------------------------------- Session

\* SessionInner { instance: instance.clone(), handle }: the session keeps
\* its own strong reference to the instance.
SessionInner_instance_unretained(strong) == strong

SessionInner_instance(strong) == Arc_clone(strong)

\* Strong count of Arc<SessionInner> when Session::from_raw returns:
\* Arc::new, session.clone() for the returned Session, session.clone() for
\* the FrameWaiter; `session` itself moves into the FrameStream.
from_raw_strong_waiter_unshared == Arc_clone(1)

from_raw_strong == Arc_clone(Arc_clone(1))

\* Session::from_raw(instance, handle): takes the Instance by value, and
\* drops it on return after SessionInner has cloned it.
Session_from_raw(i, s) ==
    /\ instUser[i] > 0
    /\ s \in Fresh(sessHandle, Sessions)
    /\ LiveHolders + from_raw_strong <= MaxHolders
    /\ sessHandle' = [sessHandle EXCEPT ![s] = "live"]
    /\ sessInst' = [sessInst EXCEPT ![s] = i]
    /\ sessStrong' = [sessStrong EXCEPT ![s] = from_raw_strong]
    /\ holders' = [holders EXCEPT ![s] =
           [k \in Kinds |-> IF k \in {"Session", "FrameWaiter", "FrameStream"} THEN 1 ELSE 0]]
    /\ instUser' = [instUser EXCEPT ![i] = @ - 1]
    /\ Instance_release(i, SessionInner_instance(instStrong[i]), <<>>)
    /\ result' = Unit("unit")
    /\ UNCHANGED <<entryUser, destroyCalls, stateVars, frame, mask>>

\* impl Clone for Session.
Session_clone(s) ==
    /\ holders[s]["Session"] > 0
    /\ LiveHolders < MaxHolders
    /\ holders' = [holders EXCEPT ![s]["Session"] = @ + 1]
    /\ sessStrong' = [sessStrong EXCEPT ![s] = Arc_clone(@)]
    /\ native' = <<>>
    /\ result' = Unit("unit")
    /\ UNCHANGED <<entryVars, instVars, sessHandle, sessInst, destroyCalls,
                   stateVars, frame, mask>>

\* Session::create_reference_space / Session::create_swapchain: on success
\* the new Space / Swapchain is built from self.clone().
Session_create_child(s, kind, fn) ==
    /\ holders[s]["Session"] > 0
    /\ LiveHolders < MaxHolders
    /\ \E status \in {"SUCCESS", "ERROR_RUNTIME_FAILURE"} :
        /\ native' = <<Call(fn, s, status)>>
        /\ result' = Ret(fn, cvt(status))
        /\ holders' = IF cvt(status).ok
                        THEN [holders EXCEPT ![s][kind] = @ + 1] ELSE holders
        /\ sessStrong' = IF cvt(status).ok
                           THEN [sessStrong EXCEPT ![s] = Arc_clone(@)] ELSE sessStrong
    /\ UNCHANGED <<entryVars, instVars, sessHandle, sessInst, destroyCalls,
                   stateVars, frame, mask>>

Session_create_reference_space(s) == Session_create_child(s, "Space", "create_reference_space")

Session_create_swapchain(s) == Session_create_child(s, "Swapchain", "create_swapchain")

\* impl Drop for SessionInner: the native calls its body makes.
SessionInner_drop(s) == <<Call("destroy_session", s, "SUCCESS")>>

\* The destructor of a holder runs before its Arc<SessionInner> is released.
Holder_drop(s, kind) ==
    CASE kind = "Space" -> <<Call("destroy_space", s, "SUCCESS")>>
      [] kind = "Swapchain" -> <<Call("destroy_swapchain", s, "SUCCESS")>>
      [] OTHER -> <<>>

DestroyedBy(calls, s) ==
    Cardinality({n \in 1..Len(calls) : calls[n].fn = "destroy_session" /\ calls[n].h = s})

\* A holder of session s is dropped.  Releasing the last strong reference
\* runs SessionInner::drop and then drops the fields, the instance among
\* them.  A holder borrowed by a running call cannot be dropped.  The
\* runtime forgets the state of a destroyed session.
Drop_holder(s, kind) ==
    /\ holders[s][kind] > 0
    /\ kind = "FrameWaiter" => frame[s].inFlight = 0
    /\ (kind = "Session" /\ mask.pc \in {"probe", "fill"} /\ mask.s = s) => holders[s]["Session"] > 1
    /\ holders' = [holders EXCEPT ![s][kind] = @ - 1]
    /\ sessStrong' = [sessStrong EXCEPT ![s] = @ - 1]
    /\ LET last == sessStrong[s] = 1
           calls == Holder_drop(s, kind) \o (IF last THEN SessionInner_drop(s) ELSE <<>>)
       IN /\ destroyCalls' = [destroyCalls EXCEPT ![s] = @ + DestroyedBy(calls, s)]
          /\ sessHandle' = IF DestroyedBy(calls, s) > 0
                             THEN [sessHandle EXCEPT ![s] = "destroyed"] ELSE sessHandle
          /\ IF last
               THEN Instance_release(sessInst[s], instStrong[sessInst[s]], calls)
               ELSE /\ native' = calls
                    /\ UNCHANGED <<instStrong, instHandle, entryStrong, lib>>
          /\ sessState' = IF last THEN [sessState EXCEPT ![s] = "IDLE"] ELSE sessState
          /\ frame' = IF last THEN [frame EXCEPT ![s] = IdleFrame] ELSE frame
    /\ result' = Unit("unit")
    /\ UNCHANGED <<entryUser, instUser, sessInst, leftIdle, endRejected, mask>>

NextOwn ==
    \/ Entry_load_from
    \/ Entry_clone
    \/ Entry_drop
    \/ \E i \in Instances : Entry_create_instance(i)
    \/ \E i \in Instances : Instance_clone(i)
    \/ \E i \in Instances : Instance_drop(i)
    \/ \E i \in Instances, s \in Sessions : Session_from_raw(i, s)
    \/ \E s \in Sessions : Session_clone(s)
    \/ \E s \in Sessions : Session_create_reference_space(s)
    \/ \E s \in Sessions : Session_create_swapchain(s)
    \/ \E s \in Sessions, k \in Kinds : Drop_holder(s, k)

SpecOwn == Init /\ [][NextOwn]_vars

\* ------------------------------------------------- session state machine
Running == {"SYNCHRONIZED", "VISIBLE", "FOCUSED"}

\* The statuses with which the runtime rejects a call made in the wrong state.
OutOfOrder == {"ERROR_SESSION_NOT_READY", "ERROR_SESSION_NOT_RUNNING",
               "ERROR_SESSION_NOT_STOPPING", "ERROR_CALL_ORDER_INVALID"}

\* The runtime moves a session along its state machine on its own.
Runtime_next(state) ==
    CASE state = "IDLE" -> {"READY"}
      [] state = "SYNCHRONIZED" -> {"VISIBLE", "STOPPING"}
      [] state = "VISIBLE" -> {"FOCUSED", "SYNCHRONIZED"}
      [] state = "FOCUSED" -> {"VISIBLE"}
      [] OTHER -> {}

Runtime_advance(s) ==
    /\ sessHandle[s] = "live"
    /\ \E next \in Runtime_next(sessState[s]) :
        sessState' = [sessState EXCEPT ![s] = next]
    /\ leftIdle' = [leftIdle EXCEPT ![s] = TRUE]
    /\ UNCHANGED <<entryVars, instVars, sessVars, endRejected, frame, mask, native, result>>

\* The runtime's answer to begin_session, request_exit_session, end_session.
Runtime_begin_session(state) == IF state = "READY" THEN "SUCCESS" ELSE "ERROR_SESSION_NOT_READY"

Runtime_request_exit_session(state) ==
    IF state \in Running THEN "SUCCESS" ELSE "ERROR_SESSION_NOT_RUNNING"

Runtime_end_session(state) ==
    CASE state = "STOPPING" -> "SUCCESS"
      [] state \in Running -> "ERROR_SESSION_NOT_STOPPING"
      [] OTHER -> "ERROR_SESSION_NOT_RUNNING"

\* Session::begin: cvt(begin_session(handle, &info)).
Session_begin(s) ==
    /\ holders[s]["Session"] > 0
    /\ LET status == Runtime_begin_session(sessState[s]) IN
        /\ native' = <<Call("begin_session", s, status)>>
        /\ result' = Ret("begin", cvt(status))
        /\ sessState' = IF status = "SUCCESS"
                          THEN [sessState EXCEPT ![s] = "SYNCHRONIZED"] ELSE sessState
    /\ UNCHANGED <<entryVars, instVars, sessVars, leftIdle, endRejected, frame, mask>>

\* Session::request_exit: cvt(request_exit_session(handle))?; Ok(()).
Session_request_exit(s) ==
    /\ holders[s]["Session"] > 0
    /\ LET status == Runtime_request_exit_session(sessState[s]) IN
        /\ native' = <<Call("request_exit_session", s, status)>>
        /\ result' = Ret("request_exit", cvt(status))
    /\ UNCHANGED <<entryVars, instVars, sessVars, stateVars, frame, mask>>

\* What Session::end returns for the status end_session answered.
Session_end_masking(status) == cvt("SUCCESS")

Session_end_result(status) == cvt(status)

\* Session::end: cvt(end_session(handle)).
Session_end(s) ==
    /\ holders[s]["Session"] > 0
    /\ LET status == Runtime_end_session(sessState[s]) IN
        /\ native' = <<Call("end_session", s, status)>>
        /\ result' = Ret("end", Session_end_result(status))
        /\ sessState' = IF status = "SUCCESS"
                          THEN [sessState EXCEPT ![s] = "IDLE"] ELSE sessState
        /\ endRejected' = IF status # "SUCCESS" /\ ~leftIdle[s]
                            THEN [endRejected EXCEPT ![s] = TRUE] ELSE endRejected
    /\ UNCHANGED <<entryVars, instVars, sessVars, leftIdle, frame, mask>>

NextState ==
    \/ Entry_load_from
    \/ \E i \in Instances : Entry_create_instance(i)
    \/ \E i \in Instances : Instance_clone(i)
    \/ \E i \in Instances, s \in Sessions : Session_from_raw(i, s)
    \/ \E s \in Sessions, k \in Kinds : Drop_holder(s, k)
    \/ \E s \in Sessions : Runtime_advance(s)
    \/ \E s \in Sessions : Session_begin(s)
    \/ \E s \in Sessions : Session_request_exit(s)
    \/ \E s \in Sessions : Session_end(s)

SpecState == Init /\ [][NextState]_vars

\* ------------------------------------------------------------- frame cycle
\* The status with which the runtime rejects a frame call made out of order.
DoubleWait == "ERROR_CALL_ORDER_INVALID"

\* The runtime's answers to wait_frame, begin_frame and end_frame, from the
\* state of the frame cycle: ready (no frame waited), waited, begun.
Runtime_wait_frame(state) == IF state = "ready" THEN "SUCCESS" ELSE DoubleWait

Runtime_begin_frame(state) == IF state = "waited" THEN "SUCCESS" ELSE DoubleWait

Runtime_end_frame(state) == IF state = "begun" THEN "SUCCESS" ELSE DoubleWait

\* FrameWaiter::wait(&mut self): the one FrameWaiter of a session is
\* borrowed exclusively for the length of the call.
FrameWaiter_wait_shared(inFlight) == TRUE

FrameWaiter_wait_borrow(inFlight) == inFlight = 0

\* FrameWaiter::wait, first half: the native wait_frame call is issued.
FrameWaiter_wait_call(s) ==
    /\ holders[s]["FrameWaiter"] > 0
    /\ FrameWaiter_wait_borrow(frame[s].inFlight)
    /\ frame[s].issued < MaxFrames
    /\ frame' = [frame EXCEPT ![s].inFlight = @ + 1, ![s].issued = @ + 1]
    /\ UNCHANGED <<entryVars, instVars, sessVars, stateVars, mask, native, result>>

\* What FrameWaiter::wait returns for the status wait_frame answered:
\* cvt(..)? returns the error, a success yields the FrameState.
FrameWaiter_wait_masking(status) == cvt("SUCCESS")

FrameWaiter_wait_result(status) == cvt(status)

\* FrameWaiter::wait, second half: the native call returns and wait returns.
FrameWaiter_wait_return(s) ==
    /\ frame[s].inFlight > 0
    /\ LET status == Runtime_wait_frame(frame[s].state) IN
        /\ native' = <<Call("wait_frame", s, status)>>
        /\ result' = Ret("wait", FrameWaiter_wait_result(status))
        /\ frame' = [frame EXCEPT ![s].inFlight = @ - 1,
                                  ![s].state = IF status = "SUCCESS" THEN "waited" ELSE @]
    /\ UNCHANGED <<entryVars, instVars, sessVars, stateVars, mask>>

\* FrameStream::begin: the native begin_frame call.
FrameStream_begin(s) ==
    /\ holders[s]["FrameStream"] > 0
    /\ LET status == Runtime_begin_frame(frame[s].state) IN
        /\ native' = <<Call("begin_frame", s, status)>>
        /\ result' = Ret("begin_frame", cvt(status))
        /\ frame' = [frame EXCEPT ![s].state = IF status = "SUCCESS" THEN "begun" ELSE @]
    /\ UNCHANGED <<entryVars, instVars, sessVars, stateVars, mask>>

\* FrameStream::end: the native end_frame call submits the frame.
FrameStream_end(s) ==
    /\ holders[s]["FrameStream"] > 0
    /\ LET status == Runtime_end_frame(frame[s].state) IN
        /\ native' = <<Call("end_frame", s, status)>>
        /\ result' = Ret("end_frame", cvt(status))
        /\ frame' = [frame EXCEPT ![s].state = IF status = "SUCCESS" THEN "ready" ELSE @,
                                  ![s].ended = IF status = "SUCCESS" THEN @ + 1 ELSE @]
    /\ UNCHANGED <<entryVars, instVars, sessVars, stateVars, mask>>

NextFrame ==
    \/ Entry_load_from
    \/ \E i \in Instances : Entry_create_instance(i)
    \/ \E i \in Instances : Instance_clone(i)
    \/ \E i \in Instances, s \in Sessions : Session_from_raw(i, s)
    \/ \E s \in Sessions, k \in Kinds : Drop_holder(s, k)
    \/ \E s \in Sessions : FrameWaiter_wait_call(s)
    \/ \E s \in Sessions : FrameWaiter_wait_return(s)
    \/ \E s \in Sessions : FrameStream_begin(s)
    \/ \E s \in Sessions : FrameStream_end(s)

SpecFrame == Init /\ [][NextFrame]_vars

\* --------------------------------------------------------- visibility mask
Counts == 0..MaxCount

\* The runtime's answer to get_visibility_mask for a mesh of V vertices and
\* I indices: a capacity of 0 asks for the count, a smaller capacity than
\* the count is insufficient.
Runtime_get_visibility_mask(vcap, icap, V, I) ==
    IF (vcap # 0 /\ vcap < V) \/ (icap # 0 /\ icap < I)
      THEN "ERROR_SIZE_INSUFFICIENT" ELSE "SUCCESS"

\* The runtime may also fail the call for a reason of its own.
Runtime_statuses(vcap, icap, V, I) ==
    {Runtime_get_visibility_mask(vcap, icap, V, I), "ERROR_RUNTIME_FAILURE"}

\* The first call is answered like any other, and the function does not
\* depend on the runtime keeping ERROR_SIZE_INSUFFICIENT for non-zero
\* capacities: the first call may be answered with it as well.
Runtime_probe_statuses(V, I) ==
    Runtime_statuses(0, 0, V, I) \cup {"ERROR_SIZE_INSUFFICIENT"}

\* usize::saturating_sub
saturating_sub(a, b) == IF a > b THEN a - b ELSE 0

\* Vec::with_capacity(n): an empty vector of capacity n.
Vec_with_capacity(n) == n

\* Vec::reserve(additional) on a vector of capacity cap and length len: the
\* capacities it may end with.  Nothing happens when cap - len already
\* covers `additional`; otherwise the vector grows to len + additional or,
\* amortised, up to twice its capacity.
Vec_reserve(cap, len, additional) ==
    IF cap - len >= additional
      THEN {cap}
      ELSE (len + additional)..Max(2 * cap, len + additional)

\* A loop that takes another turn on every error.
Mask_retries_any_error(status) == ~cvt(status).ok

\* The arms of the loop's match: Err(ERROR_SIZE_INSUFFICIENT) alone falls
\* through to the next turn, Ok(_) and Err(e) return.
Mask_retries(status) == status = "ERROR_SIZE_INSUFFICIENT"

\* let mut info = VisibilityMaskKHR { capacities 0, counts 0, null buffers }.
Session_get_visibility_mask_khr(s) ==
    /\ holders[s]["Session"] > 0
    /\ mask.pc \in {"idle", "done"}
    /\ mask' = [IdleMask EXCEPT !.pc = "probe", !.s = s]
    /\ UNCHANGED <<entryVars, instVars, sessVars, stateVars, frame, native, result>>

\* The first native call, made with `info` as initialised; `?` returns its
\* error.  On success the two vectors are allocated with the reported counts.
Mask_probe ==
    /\ mask.pc = "probe"
    /\ \E V \in Counts, I \in Counts :
       \E status \in Runtime_probe_statuses(V, I) :
        /\ native' = <<Call("get_visibility_mask", mask.s, status)>>
        /\ mask' = [mask EXCEPT
               !.n = 1, !.tick = ~@, !.status = status,
               !.vcnt = V, !.icnt = I,
               !.grew = V > mask.vcnt \/ I > mask.icnt,
               !.vcap = IF cvt(status).ok THEN Vec_with_capacity(V) ELSE @,
               !.icap = IF cvt(status).ok THEN Vec_with_capacity(I) ELSE @,
               !.pc = IF cvt(status).ok THEN "fill" ELSE "done"]
        /\ result' = IF cvt(status).ok
                       THEN result ELSE Ret("get_visibility_mask_khr", cvt(status))
    /\ UNCHANGED <<entryVars, instVars, sessVars, stateVars, frame>>

\* One turn of the loop: the capacities of the vectors are written to
\* `info`, the native call is made, and its status decides between
\* returning the mesh, growing the vectors for another turn, and returning
\* the error.  info.vertices and info.indices are not written.
Mask_fill ==
    /\ mask.pc = "fill"
    /\ \E V \in Counts, I \in Counts :
       \E status \in Runtime_statuses(mask.vcap, mask.icap, V, I) :
        /\ native' = <<Call("get_visibility_mask", mask.s, status)>>
        /\ \E vnew \in Vec_reserve(mask.vcap, mask.vlen, saturating_sub(V, mask.vcap)),
              inew \in Vec_reserve(mask.icap, mask.ilen, saturating_sub(I, mask.icap)) :
            mask' = [mask EXCEPT
               !.n = 2, !.tick = ~@, !.status = status,
               !.argv = mask.vcap, !.argi = mask.icap,
               !.vcnt = V, !.icnt = I,
               !.grew = V > mask.vcnt \/ I > mask.icnt,
               !.vlen = IF cvt(status).ok THEN V ELSE @,
               !.ilen = IF cvt(status).ok THEN I ELSE @,
               !.vcap = IF Mask_retries(status) THEN vnew ELSE @,
               !.icap = IF Mask_retries(status) THEN inew ELSE @,
               !.pc = IF Mask_retries(status) THEN "fill" ELSE "done"]
        /\ result' = IF Mask_retries(status)
                       THEN result ELSE Ret("get_visibility_mask_khr", cvt(status))
    /\ UNCHANGED <<entryVars, instVars, sessVars, stateVars, frame>>

\* The call borrows its Session, which therefore stays live throughout.
NextMask ==
    \/ Entry_load_from
    \/ \E i \in Instances : Entry_create_instance(i)
    \/ \E i \in Instances, s \in Sessions : Session_from_raw(i, s)
    \/ \E s \in Sessions : Session_get_visibility_mask_khr(s)
    \/ Mask_probe
    \/ Mask_fill

SpecMask == Init /\ [][NextMask]_vars

\* The call runs on the caller's thread: every native call returns and the
\* loop takes its next turn.
FairMask == SpecMask /\ WF_vars(Mask_probe) /\ WF_vars(Mask_fill)

\* The whole binding.  SpecOwn, SpecState, SpecFrame and SpecMask are its
\* restrictions to the operations of one concern each.
Next == NextOwn \/ NextState \/ NextFrame \/ NextMask

Spec == Init /\ [][Next]_vars

\* ------------------------------------------------------------------ claims

\* An Instance value is live: the caller holds one, or a live holder of a
\* session created from the instance reaches it through the session.
LiveInstance(i) ==
    instUser[i] > 0 \/ \E s \in Sessions : sessInst[s] = i /\ HolderCount(s) > 0

\* C1: whatever the order in which the holders of a session are dropped,
\* destroy_session has been called for its handle exactly once when no
\* holder is left, and not at all while one is left.
C1_DestroyOnceAtLastDrop ==
    \A s \in Sessions : sessHandle[s] # "none" =>
        /\ destroyCalls[s] = IF HolderCount(s) = 0 THEN 1 ELSE 0
        /\ (sessHandle[s] = "destroyed") = (HolderCount(s) = 0)

\* The last holder dropped was a Space created from the session.
C1_Witness ==
    \E s \in Sessions :
        /\ destroyCalls[s] = 1
        /\ HolderCount(s) = 0
        /\ Len(native) >= 2
        /\ native[1] = Call("destroy_space", s, "SUCCESS")
        /\ native[2] = Call("destroy_session", s, "SUCCESS")

\* C2: while a holder of a session is live the instance it was created
\* from is not destroyed, whether or not the caller still holds an
\* Instance; and an operation that destroys both calls destroy_session
\* before destroy_instance.
C2_InstanceOutlivesSession ==
    /\ \A s \in Sessions : HolderCount(s) > 0 => instHandle[sessInst[s]] = "live"
    /\ \A s \in Sessions : sessHandle[s] # "none" /\ instHandle[sessInst[s]] = "destroyed"
           => sessHandle[s] = "destroyed"
    /\ \A m, n \in 1..Len(native) :
           native[m].fn = "destroy_session" /\ native[n].fn = "destroy_instance" => m < n

\* The caller holds no Instance any more; dropping the last holder of the
\* session destroyed the session and then the instance.
C2_Witness ==
    \E s \in Sessions :
        /\ sessHandle[s] = "destroyed"
        /\ instUser[sessInst[s]] = 0
        /\ native = <<Call("destroy_session", s, "SUCCESS"),
                      Call("destroy_instance", sessInst[s], "SUCCESS")>>

\* C3: after Entry::create_instance has returned an error, no native
\* instance handle is live without an owner.
C3_NoLeakOnLoadFailure ==
    (result.op = "create_instance" /\ ~result.ok) =>
        \A i \in Instances : instHandle[i] = "live" => instStrong[i] > 0

\* C4: when a native call has answered ERROR_SIZE_INSUFFICIENT, the
\* capacities the next turn of the loop passes (those of the two vectors)
\* are at least the counts that call reported.
C4_RetryHoldsReportedCounts ==
    (mask.pc = "fill" /\ mask.status = "ERROR_SIZE_INSUFFICIENT") =>
        (mask.vcap >= mask.vcnt /\ mask.icap >= mask.icnt)

\* C5: when the counts the runtime reports stop growing, a running
\* get_visibility_mask_khr call returns.
C5_Terminates ==
    (<>[](~mask.grew)) => ((mask.pc = "fill") ~> (mask.pc = "done"))

\* C6: the first native call passes capacity 0 and null buffers, and no
\* native call passes a nonzero capacity with a null buffer.
C6_ProbeThenFill ==
    /\ mask.n = 1 => (mask.argv = 0 /\ mask.argi = 0
                        /\ mask.vertices = "null" /\ mask.indices = "null")
    /\ mask.n >= 1 => /\ mask.argv > 0 => mask.vertices # "null"
                      /\ mask.argi > 0 => mask.indices # "null"

\* C7, as stated: the wait_frame call for frame N+1 is issued only after
\* N submissions have completed.
C7_WaitAfterSubmit ==
    \A s \in Sessions : frame[s].issued <= frame[s].ended + 1

\* C7, amended: at most one wait_frame call of a session is in flight, so
\* the call for frame N+1 is issued only after the call for frame N returned.
C7_OneWaitInFlight ==
    \A s \in Sessions : frame[s].inFlight <= 1

\* The wait_frame call for the second frame is in flight and no frame has
\* been submitted.
C7_Witness ==
    \E s \in Sessions :
        frame[s].inFlight = 1 /\ frame[s].issued = 2 /\ frame[s].ended = 0

\* C8: a wait that returns while the frame of the previous successful wait
\* has not been begun returns the error the runtime answered, the
\* double-wait status, and no FrameState.
C8_DoubleWaitRejected ==
    [][\A s \in Sessions :
          (frame[s].state = "waited" /\ frame'[s].inFlight < frame[s].inFlight) =>
              /\ native' = <<Call("wait_frame", s, DoubleWait)>>
              /\ result' = [op |-> "wait", ok |-> FALSE, val |-> DoubleWait]
              /\ frame'[s].state = "waited"]_vars

\* Two waits in a row: the second one was rejected.
C8_Witness ==
    \E s \in Sessions :
        /\ result = [op |-> "wait", ok |-> FALSE, val |-> DoubleWait]
        /\ frame[s].state = "waited"
        /\ frame[s].issued = 2
        /\ frame[s].inFlight = 0

\* A step of Session::end on session s.
EndStep(s) ==
    /\ result'.op = "end"
    /\ Len(native') = 1
    /\ native'[1].fn = "end_session"
    /\ native'[1].h = s
    /\ <<native, result, endRejected>>' # <<native, result, endRejected>>

\* C9: Session::end on a session that never left IDLE returns the
\* out-of-order status the runtime answered as an error and leaves every
\* reference count, holder and handle as it was; such a session is still
\* destroyed exactly once, when its last holder is dropped.
C9_EndRejectedInIdle ==
    /\ [][\A s \in Sessions :
             (~leftIdle[s] /\ EndStep(s)) =>
                 /\ native'[1].ret \in OutOfOrder
                 /\ result' = [op |-> "end", ok |-> FALSE, val |-> native'[1].ret]
                 /\ sessHandle'[s] = "live"
                 /\ UNCHANGED <<entryVars, instVars, sessVars>>]_vars
    /\ [](\A s \in Sessions : endRejected[s] =>
             destroyCalls[s] = IF HolderCount(s) = 0 THEN 1 ELSE 0)

\* end was rejected in IDLE and the session has since been dropped and
\* destroyed once.
C9_Witness ==
    \E s \in Sessions :
        endRejected[s] /\ HolderCount(s) = 0 /\ destroyCalls[s] = 1

\* C10: the library is loaded exactly as long as an Entry or an Instance
\* created from it is live.
C10_LibraryOutlivesOwners ==
    lib # "unopened" =>
        ((lib = "loaded") = (entryUser > 0 \/ \E i \in Instances : LiveInstance(i)))

\* The caller has dropped every Entry; a session keeps the instance, and
\* with it the library, alive.
C10_Witness ==
    /\ lib = "loaded"
    /\ entryUser = 0
    /\ \E i \in Instances : instUser[i] = 0 /\ LiveInstance(i)

\* A step of get_visibility_mask_khr that makes a native call.
MaskCall == mask.pc \in {"probe", "fill"} /\ mask'.tick # mask.tick

\* C11: every native call of get_visibility_mask_khr is followed by another
\* one only when it is the first call and succeeded, or a call of the loop
\* answered ERROR_SIZE_INSUFFICIENT; every other failure, of the first call
\* or of a call of the loop, ends the function in the same step with that
\* status as its error, the failed call being the last native call made.
C11_OnlyInsufficientFillRetries ==
    [][MaskCall =>
         LET status == mask'.status
             retried == mask.pc = "fill" /\ status = "ERROR_SIZE_INSUFFICIENT"
         IN  /\ native' = <<Call("get_visibility_mask", mask.s, status)>>
             /\ (mask'.pc = "fill") =
                    ((mask.pc = "probe" /\ cvt(status).ok) \/ retried)
             /\ mask'.pc \in {"fill", "done"}
             /\ (~cvt(status).ok /\ ~retried) =>
                    /\ mask'.pc = "done"
                    /\ result' = [op |-> "get_visibility_mask_khr",
                                  ok |-> FALSE, val |-> status]]_vars

\* A call of the loop that passed a vertex buffer failed with another status
\* than ERROR_SIZE_INSUFFICIENT, and the function returned that status.
C11_Witness ==
    /\ mask.pc = "done"
    /\ mask.n = 2
    /\ mask.argv > 0
    /\ mask.status = "ERROR_RUNTIME_FAILURE"
    /\ result = [op |-> "get_visibility_mask_khr",
                 ok |-> FALSE, val |-> "ERROR_RUNTIME_FAILURE"]

\* The first call was answered ERROR_SIZE_INSUFFICIENT and the function
\* returned it without a second call.
C11_ProbeWitness ==
    /\ mask.pc = "done"
    /\ mask.n = 1
    /\ mask.status = "ERROR_SIZE_INSUFFICIENT"
    /\ result = [op |-> "get_visibility_mask_khr",
                 ok |-> FALSE, val |-> "ERROR_SIZE_INSUFFICIENT"]

\* C12: when get_visibility_mask_khr returns a mesh, the lengths of its
\* vertices and indices are the counts reported by the last native call,
\* which succeeded, and neither length exceeds the capacity passed to that
\* call; counts of zero give an empty mesh, returned as Ok.
C12_MeshWithinCapacity ==
    (mask.pc = "done" /\ mask.n = 2 /\ cvt(mask.status).ok) =>
        /\ result = [op |-> "get_visibility_mask_khr",
                     ok |-> TRUE, val |-> mask.status]
        /\ mask.vlen = mask.vcnt
        /\ mask.ilen = mask.icnt
        /\ mask.vlen <= mask.argv
        /\ mask.ilen <= mask.argi

====
